---- MODULE Spec2Model ----
(***************************************************************************)
(* Ride-and-Vibe backend: the request handlers of app.py over the three    *)
(* tables of models.py (User, Ride, RideRequest).                          *)
(*                                                                         *)
(* Tables are sequences: the row with primary key i is element i, as the   *)
(* auto-increment keys of the store give 1, 2, 3, ... and no handler       *)
(* deletes a row.  created_at columns and the password hash are left out:  *)
(* no modelled handler reads them.  The identity carried by a bearer token *)
(* is the id of a stored user (login issues tokens for stored users only), *)
(* so an actor is an element of DOMAIN users.                              *)
(*                                                                         *)
(* The response of a handler is the value of its ...Outcome operator in    *)
(* the state the call is made in; a call that fails leaves the store as it *)
(* is.  login and get_ride only read and are not modelled.                 *)
(***************************************************************************)
EXTENDS Integers, Sequences, FiniteSets, TLC

\* ------------------------------------------------------------- bounds
MaxRides == 1       \* active rides posted through create_ride
MaxSeats == 1       \* available_seats given to create_ride: 0..MaxSeats
MaxOverdraw == 1    \* accepts stop once available_seats is -MaxOverdraw
MaxRequests == 2    \* rows of RideRequest
MaxWorkers == 2     \* request_ride calls in flight at once
MaxLocLen == 2      \* length of a location and of a search string
MaxDate == 2        \* departure times and search dates: 0..MaxDate

\* ------------------------------------------------------------- values
Emails == {"e1", "e2"}
Names == {"n"}
NewStatuses == {"accepted", "rejected", "pending"}
Alphabet == {"a", "A", "_", "%"}
Dates == 0..MaxDate
SeatCounts == 0..MaxSeats

VARIABLES
    users,          \* table User: sequence of [email, name]
    rides,          \* table Ride
    requests,       \* table RideRequest
    inflight,       \* per worker: the request_ride call between lookup and insert
    found,          \* the query and the answer of the last search_rides call
    created_seats,  \* history: the available_seats each ride row started with
    accepted_once   \* history: ids of the requests that went pending -> accepted

store == <<users, rides, requests>>
sys == <<users, rides, requests, inflight, found>>
hist == <<created_seats, accepted_once>>
vars == <<users, rides, requests, inflight, found, created_seats, accepted_once>>

Workers == 1..MaxWorkers
NoCall == [ride |-> 0, passenger |-> 0]
NoSearch == [start |-> <<>>, end |-> <<>>, date |-> <<>>, ids |-> {}]

\* ------------------------------------------------------------- models.py
User(email, name) == [email |-> email, name |-> name]

Ride(start, end, seats, departure, price, driver) ==
    [start_location |-> start, end_location |-> end, available_seats |-> seats,
     departure_time |-> departure, price |-> price, status |-> "active",
     driver_id |-> driver]

RideRequest(ride_id, passenger_id) ==
    [status |-> "pending", ride_id |-> ride_id, passenger_id |-> passenger_id]

\* ------------------------------------------------------------- register
EmailTaken(email) == \E u \in DOMAIN users : users[u].email = email

\* variant: the lookup before the insert is left out
RegisterOutcome_NoLookup(email) == "Created"

RegisterOutcome(email) ==
    IF EmailTaken(email) THEN "DuplicateEmail" ELSE "Created"

Register(email, name) ==
    /\ users' = IF RegisterOutcome(email) = "Created"
                THEN Append(users, User(email, name))
                ELSE users
    /\ UNCHANGED <<rides, requests, inflight, found>>

\* ------------------------------------------------------------- create_ride
ActiveRides == {r \in DOMAIN rides : rides[r].status = "active"}

CreateRide(actor, start, end, seats, departure, price) ==
    /\ Cardinality(ActiveRides) < MaxRides
    /\ rides' = Append(rides, Ride(start, end, seats, departure, price, actor))
    /\ UNCHANGED <<users, requests, inflight, found>>

\* ------------------------------------------------------------- request_ride
ExistingRequest(ride_id, passenger_id) ==
    \E q \in DOMAIN requests :
        /\ requests[q].ride_id = ride_id
        /\ requests[q].passenger_id = passenger_id

\* variant: the existing-request lookup runs before the seat check
RequestRideOutcome_LookupFirst(ride_id, actor) ==
    IF ride_id \notin DOMAIN rides THEN "NotFound"
    ELSE IF rides[ride_id].status # "active" THEN "RideNotActive"
    ELSE IF ExistingRequest(ride_id, actor) THEN "DuplicateRequest"
    ELSE IF rides[ride_id].available_seats <= 0 THEN "NoSeatsAvailable"
    ELSE "Created"

RequestRideOutcome(ride_id, actor) ==
    IF ride_id \notin DOMAIN rides THEN "NotFound"
    ELSE IF rides[ride_id].status # "active" THEN "RideNotActive"
    ELSE IF rides[ride_id].available_seats <= 0 THEN "NoSeatsAvailable"
    ELSE IF ExistingRequest(ride_id, actor) THEN "DuplicateRequest"
    ELSE "Created"

\* the whole handler, run with no other call in between
RequestRide(actor, ride_id) ==
    /\ RequestRideOutcome(ride_id, actor) = "Created" => Len(requests) < MaxRequests
    /\ requests' = IF RequestRideOutcome(ride_id, actor) = "Created"
                   THEN Append(requests, RideRequest(ride_id, actor))
                   ELSE requests
    /\ UNCHANGED <<users, rides, inflight, found>>

\* the handler up to and including the existing-request lookup
RequestRideLookup(w, actor, ride_id) ==
    /\ inflight[w] = NoCall
    /\ inflight' = IF RequestRideOutcome(ride_id, actor) = "Created"
                   THEN [inflight EXCEPT ![w] = [ride |-> ride_id, passenger |-> actor]]
                   ELSE inflight
    /\ UNCHANGED <<users, rides, requests, found>>

\* the insert and commit of a call whose lookup found nothing
RequestRideInsert(w) ==
    /\ inflight[w] # NoCall
    /\ Len(requests) < MaxRequests
    /\ requests' = Append(requests,
                          RideRequest(inflight[w].ride, inflight[w].passenger))
    /\ inflight' = [inflight EXCEPT ![w] = NoCall]
    /\ UNCHANGED <<users, rides, found>>

\* ------------------------------------------------------------- update_ride_request
\* variant: the status is validated before the driver check
UpdateOutcome_StatusFirst(request_id, actor, new_status) ==
    IF request_id \notin DOMAIN requests THEN "NotFound"
    ELSE IF new_status \notin {"accepted", "rejected"} THEN "InvalidStatus"
    ELSE IF rides[requests[request_id].ride_id].driver_id # actor THEN "Unauthorized"
    ELSE "OK"

UpdateOutcome(request_id, actor, new_status) ==
    IF request_id \notin DOMAIN requests THEN "NotFound"
    ELSE IF rides[requests[request_id].ride_id].driver_id # actor THEN "Unauthorized"
    ELSE IF new_status \notin {"accepted", "rejected"} THEN "InvalidStatus"
    ELSE "OK"

\* variant: every accepted update takes a seat, whatever the new status
SeatsAfterUpdate_AnyStatus(seats, new_status) == seats - 1

\* variant: a rejection gives a seat back
SeatsAfterUpdate_Refund(seats, new_status) ==
    IF new_status = "accepted" THEN seats - 1 ELSE seats + 1

SeatsAfterUpdate(seats, new_status) ==
    IF new_status = "accepted" THEN seats - 1 ELSE seats

UpdateRideRequest(actor, request_id, new_status) ==
    IF UpdateOutcome(request_id, actor, new_status) = "OK"
    THEN LET r == requests[request_id].ride_id IN
         /\ SeatsAfterUpdate(rides[r].available_seats, new_status) >= -MaxOverdraw
         /\ requests' = [requests EXCEPT ![request_id].status = new_status]
         /\ rides' = [rides EXCEPT ![r].available_seats =
                          SeatsAfterUpdate(rides[r].available_seats, new_status)]
         /\ UNCHANGED <<users, inflight, found>>
    ELSE UNCHANGED sys

\* ------------------------------------------------------------- search_rides
\* lower() of the store on one character
Lower(c) == IF c = "A" THEN "a" ELSE c

LowerStr(s) == [i \in 1..Len(s) |-> Lower(s[i])]

\* SQL LIKE: % matches any run of characters, _ any one character
RECURSIVE Like(_, _)
Like(str, pat) ==
    IF pat = <<>> THEN str = <<>>
    ELSE IF Head(pat) = "%"
         THEN Like(str, Tail(pat)) \/ (str # <<>> /\ Like(Tail(str), pat))
    ELSE IF str = <<>> THEN FALSE
    ELSE (Head(pat) = "_" \/ Head(pat) = Head(str)) /\ Like(Tail(str), Tail(pat))

\* column.ilike(pattern): lower(column) LIKE lower(pattern)
ILike(column, pattern) == Like(LowerStr(column), LowerStr(pattern))

\* f'%{text}%'
Wrapped(text) == <<"%">> \o text \o <<"%">>

\* a filter is a sequence: empty when the argument is absent or empty
SearchResult(start, end, date) ==
    {r \in DOMAIN rides :
        /\ rides[r].status = "active"
        /\ start # <<>> => ILike(rides[r].start_location, Wrapped(start))
        /\ end # <<>> => ILike(rides[r].end_location, Wrapped(end))
        /\ date # <<>> => rides[r].departure_time >= date[1]}

SearchRides(start, end, date) ==
    /\ found' = [start |-> start, end |-> end, date |-> date,
                 ids |-> SearchResult(start, end, date)]
    /\ UNCHANGED <<users, rides, requests, inflight>>

\* ------------------------------------------------------------- history
\* what an observer of the store records at each step
Observe ==
    /\ created_seats' =
          [r \in DOMAIN rides' |->
              IF r \in DOMAIN rides THEN created_seats[r]
              ELSE rides'[r].available_seats]
    /\ accepted_once' = accepted_once \cup
          {q \in DOMAIN requests :
              requests[q].status = "pending" /\ requests'[q].status = "accepted"}

\* the history is recorded under SpecHist alone; elsewhere it stays as Init set it
Frozen == UNCHANGED hist

\* ------------------------------------------------------------- specifications
\* The store is persistent: db.create_all() keeps the rows it finds.  The
\* program starts on an empty store, or on one that holds a user and a ride
\* of theirs whose status was set to completed or cancelled.
InitStore ==
    /\ \/ users = <<>> /\ rides = <<>>
       \/ /\ users = <<User("e1", "n")>>
          /\ \/ rides = <<[Ride(<<"a">>, <<"A">>, 0, 1, 10, 1)
                                EXCEPT !.status = "completed"]>>
             \/ rides = <<[Ride(<<"a">>, <<"A">>, MaxSeats, 1, 10, 1)
                                EXCEPT !.status = "cancelled"]>>
    /\ requests = <<>>

InitRest ==
    /\ inflight = [w \in Workers |-> NoCall]
    /\ found = NoSearch
    /\ created_seats = [r \in DOMAIN rides |-> rides[r].available_seats]
    /\ accepted_once = {}

Init == InitStore /\ InitRest

RideIds == 1..(Len(rides) + 1)
RequestIds == 1..(Len(requests) + 1)

\* every handler runs from start to end before the next call starts
Next ==
    \/ \E e \in Emails, n \in Names : Register(e, n) /\ Frozen
    \/ \E a \in DOMAIN users, n \in SeatCounts :
          CreateRide(a, <<"a">>, <<"A">>, n, 1, 10) /\ Frozen
    \/ \E a \in DOMAIN users, r \in RideIds : RequestRide(a, r) /\ Frozen
    \/ \E a \in DOMAIN users, q \in RequestIds, s \in NewStatuses :
          UpdateRideRequest(a, q, s) /\ Frozen

Spec == Init /\ [][Next]_vars

\* the same calls, with the history recorded
NextHist ==
    \/ \E e \in Emails, n \in Names : Register(e, n) /\ Observe
    \/ \E a \in DOMAIN users, n \in SeatCounts :
          CreateRide(a, <<"a">>, <<"A">>, n, 1, 10) /\ Observe
    \/ \E a \in DOMAIN users, r \in RideIds : RequestRide(a, r) /\ Observe
    \/ \E a \in DOMAIN users, q \in RequestIds, s \in NewStatuses :
          UpdateRideRequest(a, q, s) /\ Observe

SpecHist == Init /\ [][NextHist]_vars

\* request_ride calls of several workers interleave between lookup and insert
NextConc ==
    \/ \E e \in Emails, n \in Names : Register(e, n) /\ Frozen
    \/ \E a \in DOMAIN users, n \in SeatCounts :
          CreateRide(a, <<"a">>, <<"A">>, n, 1, 10) /\ Frozen
    \/ \E w \in Workers, a \in DOMAIN users, r \in RideIds :
          RequestRideLookup(w, a, r) /\ Frozen
    \/ \E w \in Workers : RequestRideInsert(w) /\ Frozen
    \/ \E a \in DOMAIN users, q \in RequestIds, s \in NewStatuses :
          UpdateRideRequest(a, q, s) /\ Frozen

SpecConc == Init /\ [][NextConc]_vars

\* search_rides over a table of one ride, every column drawn
RECURSIVE StringsUpTo(_)
StringsUpTo(n) ==
    IF n = 0 THEN {<<>>}
    ELSE LET S == StringsUpTo(n - 1)
         IN  S \cup {Append(t, c) : t \in {u \in S : Len(u) = n - 1}, c \in Alphabet}

Strings == StringsUpTo(MaxLocLen)
EndStrings == {<<>>, <<"a">>}
SearchDates == {<<>>} \cup {<<d>> : d \in Dates}

InitSearch ==
    /\ users = <<User("e1", "n")>>
    /\ \E s \in Strings \ {<<>>}, e \in {<<"a">>, <<"_">>},
          st \in {"active", "cancelled"}, d \in Dates :
          rides = <<[Ride(s, e, 1, d, 10, 1) EXCEPT !.status = st]>>
    /\ requests = <<>>
    /\ InitRest

NextSearch ==
    \E s \in Strings, e \in EndStrings, d \in SearchDates : SearchRides(s, e, d) /\ Frozen

SpecSearch == InitSearch /\ [][NextSearch]_vars

\* ------------------------------------------------------------- claims
DriverOf(q) == rides[requests[q].ride_id].driver_id
RequestsOf(r) == {q \in DOMAIN requests : requests[q].ride_id = r}
\* a step that changes a table (a failed call changes none)
StoreChanged == store' # store
HasRequest(r, a) ==
    \E q \in DOMAIN requests : requests[q].ride_id = r /\ requests[q].passenger_id = a

\* C1: in every state reached by create_ride (seats >= 0), request_ride and
\* update_request_status calls, every ride's available_seats is >= 0.
C1_SeatsNeverNegative ==
    \A r \in DOMAIN rides : rides[r].available_seats >= 0

\* C2: in every reachable state, the seats a ride was created with minus its
\* available_seats is the number of its requests that have made the
\* pending -> accepted transition (a repeated accept does not decrement again).
C2_OneDecrementPerAcceptedRequest ==
    \A r \in DOMAIN rides :
        created_seats[r] - rides[r].available_seats
            = Cardinality(RequestsOf(r) \cap accepted_once)

\* C3: a request is created in status pending, and once its status is accepted
\* or rejected no later update changes it to a different status.
C3_AcceptedRejectedTerminal ==
    [][/\ \A q \in DOMAIN requests' \ DOMAIN requests :
              requests'[q].status = "pending"
       /\ \A q \in DOMAIN requests :
              requests[q].status \in {"accepted", "rejected"}
                  => requests'[q].status = requests[q].status]_vars

\* C4: in every reachable state, also when request_ride calls interleave
\* between lookup and insert, there is at most one request per (ride, passenger).
C4_OneRequestPerPair ==
    \A p, q \in DOMAIN requests :
        (requests[p].ride_id = requests[q].ride_id
            /\ requests[p].passenger_id = requests[q].passenger_id) => p = q

\* the answer to an actor who is not the driver
C5_Unauthorized ==
    \A q \in DOMAIN requests, a \in DOMAIN users, s \in NewStatuses \cup {"other"} :
        a # DriverOf(q) => UpdateOutcome(q, a, s) = "Unauthorized"

\* what an update by another actor changes, and who changes a status
C5_Effect ==
    StoreChanged =>
        /\ \A q \in DOMAIN requests, a \in DOMAIN users, s \in NewStatuses :
              (a # DriverOf(q) /\ UpdateRideRequest(a, q, s))
                  => (requests' = requests /\ rides' = rides)
        /\ \A q \in DOMAIN requests :
              requests'[q].status # requests[q].status
                  => \E s \in NewStatuses : UpdateRideRequest(DriverOf(q), q, s)

\* C5: for every existing request and every actor other than the driver of its
\* ride, update_request_status answers Unauthorized whatever the new status and
\* changes neither requests nor rides; every status change is the driver's.
C5_OnlyDriverUpdates == []C5_Unauthorized /\ [][C5_Effect]_store

C5_Witness ==
    \E q \in DOMAIN requests, a \in DOMAIN users :
        /\ a # DriverOf(q)
        /\ requests[q].status = "pending"
        /\ UpdateOutcome(q, a, "accepted") = "Unauthorized"
        /\ UpdateOutcome(q, a, "pending") = "Unauthorized"

\* C6: a successful update to accepted lowers the available_seats of the
\* request's ride by exactly 1 and changes no other ride; a successful update
\* to rejected leaves every ride's available_seats unchanged.
C6_SeatEffect ==
    [][StoreChanged => \A a \in DOMAIN users, q \in DOMAIN requests, s \in NewStatuses :
          (UpdateOutcome(q, a, s) = "OK" /\ UpdateRideRequest(a, q, s)) =>
              /\ DOMAIN rides' = DOMAIN rides
              /\ s = "accepted" =>
                    \A r \in DOMAIN rides :
                        IF r = requests[q].ride_id
                        THEN rides'[r].available_seats = rides[r].available_seats - 1
                        ELSE rides'[r] = rides[r]
              /\ s = "rejected" =>
                    \A r \in DOMAIN rides :
                        rides'[r].available_seats = rides[r].available_seats]_store

C6_Witness ==
    /\ Len(rides) >= 2
    /\ \E p, q \in DOMAIN requests :
          /\ requests[p].ride_id = requests[q].ride_id
          /\ requests[p].status = "accepted"
          /\ requests[q].status = "rejected"
          /\ rides[requests[p].ride_id].available_seats = MaxSeats - 1

\* the answer of request_ride, check by check
C7_Outcome ==
    \A a \in DOMAIN users, r \in RideIds :
        LET res == RequestRideOutcome(r, a) IN
        /\ r \notin DOMAIN rides => res = "NotFound"
        /\ r \in DOMAIN rides =>
              /\ rides[r].status # "active" => res = "RideNotActive"
              /\ (rides[r].status = "active" /\ rides[r].available_seats <= 0)
                    => res = "NoSeatsAvailable"
              /\ (rides[r].status = "active" /\ rides[r].available_seats > 0
                     /\ HasRequest(r, a)) => res = "DuplicateRequest"
              /\ (rides[r].status = "active" /\ rides[r].available_seats > 0
                     /\ ~HasRequest(r, a)) => res = "Created"

\* what a request_ride call changes
C7_Effect ==
    StoreChanged => \A a \in DOMAIN users, r \in RideIds :
        RequestRide(a, r) =>
            /\ users' = users /\ rides' = rides
            /\ IF RequestRideOutcome(r, a) = "Created"
               THEN requests' = Append(requests,
                        [status |-> "pending", ride_id |-> r, passenger_id |-> a])
               ELSE requests' = requests

\* C7: request_ride is decided by the first failing check in the order
\* NotFound, RideNotActive, NoSeatsAvailable, DuplicateRequest; a failure
\* changes nothing and a success adds exactly one pending request; a ride
\* whose available_seats is 0 answers NoSeatsAvailable to every passenger.
C7_RequestRideChecks == []C7_Outcome /\ [][C7_Effect]_store

C7_Witness ==
    \E r \in DOMAIN rides, a, b \in DOMAIN users :
        /\ rides[r].status = "active" /\ rides[r].available_seats = 0
        /\ \E q \in RequestsOf(r) :
              requests[q].passenger_id = a /\ requests[q].status = "accepted"
        /\ ~HasRequest(r, b)
        /\ RequestRideOutcome(r, a) = "NoSeatsAvailable"
        /\ RequestRideOutcome(r, b) = "NoSeatsAvailable"

\* emails are unique and register answers on the stored emails alone
C8_UniqueEmails ==
    /\ \A u, v \in DOMAIN users : users[u].email = users[v].email => u = v
    /\ \A e \in Emails :
          RegisterOutcome(e) =
              IF \E u \in DOMAIN users : users[u].email = e
              THEN "DuplicateEmail" ELSE "Created"

\* what a register call changes
C8_Effect ==
    StoreChanged => \A e \in Emails, n \in Names :
        Register(e, n) =>
            IF \E u \in DOMAIN users : users[u].email = e
            THEN users' = users
            ELSE /\ Len(users') = Len(users) + 1
                 /\ SubSeq(users', 1, Len(users)) = users
                 /\ users'[Len(users')].email = e

\* C8: register with an email no stored user has adds exactly one user;
\* register with a stored email answers DuplicateEmail and leaves the users
\* unchanged; no two users ever share an email.
C8_Register == []C8_UniqueEmails /\ [][C8_Effect]_store

C8_Witness ==
    /\ rides = <<>>
    /\ Len(users) = 2
    /\ \A e \in Emails : RegisterOutcome(e) = "DuplicateEmail"

\* text occurs in str, letter case ignored
IsSubstring(text, str) ==
    \E i \in 0..(Len(str) - Len(text)) :
        \A k \in 1..Len(text) : Lower(str[i + k]) = Lower(text[k])

\* C9: search_rides returns exactly the active rides that meet every supplied
\* filter: start a case-insensitive substring of start_location, end one of
\* end_location, departure_time >= date; an absent filter restricts nothing.
C9_SearchIsSubstringMatch ==
    found # NoSearch =>
        found.ids =
            {r \in DOMAIN rides :
                /\ rides[r].status = "active"
                /\ IsSubstring(found.start, rides[r].start_location)
                /\ IsSubstring(found.end, rides[r].end_location)
                /\ found.date # <<>> => rides[r].departure_time >= found.date[1]}

\* C10: a ride's available_seats never increases, an accepted -> rejected
\* change leaves the seat taken, and a ride's status and driver and a
\* request's ride and passenger never change.
C10_NoSeatReturned ==
    [][/\ \A r \in DOMAIN rides :
              /\ r \in DOMAIN rides'
              /\ rides'[r].available_seats <= rides[r].available_seats
              /\ rides'[r].status = rides[r].status
              /\ rides'[r].driver_id = rides[r].driver_id
       /\ \A q \in DOMAIN requests :
              /\ q \in DOMAIN requests'
              /\ requests'[q].ride_id = requests[q].ride_id
              /\ requests'[q].passenger_id = requests[q].passenger_id
              /\ (requests[q].status = "accepted" /\ requests'[q].status = "rejected")
                    => rides' = rides]_vars

C10_Witness ==
    /\ Len(requests) = 1
    /\ requests[1].status = "rejected"
    /\ rides[requests[1].ride_id].available_seats = MaxSeats - 1

====
